---- MODULE Spec2Model ----
(***************************************************************************)
(* A model of bup: the chunked backup / restore pipeline of src/lib.rs,   *)
(* the object-store adapter with its local cache of src/storage.rs, and   *)
(* the versioned manifest (Document / PrevBlob) of src/blob.rs.           *)
(*                                                                         *)
(* A file is a sequence of bytes, a chunk is CHUNK_SIZE bytes, a hash is   *)
(* an injective encoding of a chunk (collision resistance of BLAKE3), and  *)
(* a manifest (Blob) is a sequence of hashes.                              *)
(***************************************************************************)
EXTENDS Integers, Sequences, FiniteSets, TLC

\* ------------------------------------------------------------------ bounds
\* The sizes of src/lib.rs, scaled down: CHUNK_SIZE (lib.rs:23, 128 KiB),
\* HASH_CHANNEL_SIZE (lib.rs:172, 400), the upload semaphore (lib.rs:70, 16).
CHUNK_SIZE == 2
HASH_CHANNEL_SIZE == 2
UPLOAD_PERMITS == 2
\* Bytes are 0..MaxByte; files have at most MaxFileLen bytes.
MaxByte == 1
MaxFileLen == 4
\* Ingests per behaviour, injected I/O failures per behaviour, and the length
\* of the manifest a stale cache file may hold when the process starts.
MaxIngests == 2
MaxFaults == 1
MaxStaleLen == 1
\* Manifests given to a Document have at most MaxDocLen hashes; a Document
\* is updated at most MaxUpdates times.
MaxDocLen == 3
MaxUpdates == 2

\* ----------------------------------------------------------------- values
Bytes == 0..MaxByte
Files == UNION {[1..n -> Bytes] : n \in 0..MaxFileLen}
Chunks == [1..CHUNK_SIZE -> Bytes]

RECURSIVE Pow(_, _)
Pow(b, e) == IF e = 0 THEN 1 ELSE b * Pow(b, e - 1)

RECURSIVE Digest(_, _)
Digest(data, i) ==
    IF i > Len(data) THEN 0
    ELSE data[i] * Pow(MaxByte + 1, i - 1) + Digest(data, i + 1)

\* blake3::hash: injective on chunks, never the all-zero value.
Hash(data) == 1 + Digest(data, 1)
HashValues == {Hash(c) : c \in Chunks}

\* Option<T>: None is the empty set, Some(x) the singleton.
None == {}
Some(x) == {x}
The(o) == CHOOSE x \in o : TRUE
Blobs(n) == UNION {[1..k -> HashValues] : k \in 0..n}

\* The file cut the way the reader cuts it (lib.rs:181-196): read_exact fills
\* the whole buffer or fails with UnexpectedEof.
FullChunks(f) == Len(f) \div CHUNK_SIZE
WholeChunks(f) == Len(f) % CHUNK_SIZE = 0
ChunkAt(f, idx) == [i \in 1..CHUNK_SIZE |-> f[idx * CHUNK_SIZE + i]]

\* The file zero-padded to the next multiple of CHUNK_SIZE, and its chunks.
PadLen(f) == ((Len(f) + CHUNK_SIZE - 1) \div CHUNK_SIZE) * CHUNK_SIZE
Padded(f) == [i \in 1..PadLen(f) |-> IF i <= Len(f) THEN f[i] ELSE 0]
PaddedChunks(f) == PadLen(f) \div CHUNK_SIZE
PaddedHashes(f) == [k \in 1..PaddedChunks(f) |-> Hash(ChunkAt(Padded(f), k - 1))]

Range(s) == {s[i] : i \in DOMAIN s}
Last(s) == s[Len(s)]

\* ------------------------------------------------------------------ state
VARIABLES
    \* the object store (storage.rs:9 store): the root object and the chunk objects
    store_root,     \* Option<Blob>: the manifest under root_key
    store_objs,     \* the chunk objects: set of [hash, data], one per hash
    \* LocalData (storage.rs:120-124), shared by every clone of the Storage
    hashes_stored,  \* set of hashes the cache believes are stored
    metadata,       \* Option<Blob>: the cached last-known manifest
    \* the running operation
    mode,           \* "idle" | "backup" | "restore"
    file,           \* the bytes of the file being backed up
    initial,        \* backup's `initial` argument
    rd_pc,          \* block reader (lib.rs:177-202): off, loop, ok, err, panic
    rd_idx,         \* the reader's loop index
    hashing,        \* blocks handed to rayon, not yet sent (each holds a channel permit)
    hash_ch,        \* the hash channel: sequence of (hash, block)
    up_pc,          \* BlockUploader::upload: off, start, recv, acquire, join, ok, err
    blob,           \* upload's local `blob.chunk_hashes`
    cur,            \* Option: the (hash, block) upload holds while it awaits a permit
    join_set,       \* spawned upload workers: sequence of [hash, data, pc]
    \* restore (lib.rs:263-301)
    fetch_pc,       \* fetch_task: off, root, chunks, ok, err, mismatch
    fetch_blob,     \* the manifest being restored
    fetch_i,        \* index of the next chunk to fetch
    chunk_ch,       \* the chunk channel
    write_pc,       \* write_task: off, recv, ok
    out,            \* the bytes write_task has written, from offset 0
    out_old,        \* what the output path held when restore opened it
    \* environment and history
    faults,         \* I/O failures the environment may still inject
    budget,         \* ingests that may still be started
    start,          \* the store and the cache when the running ingest started,
                    \* and the chunk indices its reader is to emit
    puts,           \* chunk puts issued by the running ingest: set of [hash, held]
    read_failed,    \* a source read of the running ingest failed
    put_failed,     \* a put_block of the running ingest failed
    hist,           \* completed ingests, oldest first
    \* backup_lvm_thin (lib.rs:215-260)
    delta,          \* chunk indices the visitor has yet to read: the reader tasks
    \* a second ingest, by another Storage over the same object store
    other           \* [pc, blob, todo]

storeVars == <<store_root, store_objs>>
cacheVars == <<hashes_stored, metadata>>
readerVars == <<rd_pc, rd_idx, hashing>>
uploadVars == <<up_pc, blob, cur, join_set>>
restoreVars == <<fetch_pc, fetch_blob, fetch_i, chunk_ch, write_pc, out, out_old>>
ghostVars == <<start, puts, read_failed, put_failed, hist>>
pipeVars == <<storeVars, cacheVars, mode, file, initial, readerVars, hash_ch,
              uploadVars, restoreVars, faults, budget, ghostVars>>
allPipe == <<pipeVars, delta, other>>

\* ------------------------------------------------------------- the store
\* ObjectStore::put of a chunk object (storage.rs:51).
StorePut(objs, h, data) ==
    {o \in objs : o.hash # h} \cup {[hash |-> h, data |-> data]}
\* A head whose result is read the wrong way round.
StoreLacks(objs, h) == ~\E o \in objs : o.hash = h

\* ObjectStore::head(..).is_ok() and ObjectStore::get (storage.rs:75, 91).
StoreHas(objs, h) == \E o \in objs : o.hash = h
StoreGet(objs, h) == (CHOOSE o \in objs : o.hash = h).data

\* A cache file found by Storage::new (storage.rs:20-27): absent (a fresh
\* LocalData) or left behind by a run against a store whose manifest was b.
InitCaches ==
    UNION {{[hashes_stored |-> Range(b), metadata |-> m] : m \in {None, Some(b)}} :
            b \in Blobs(MaxStaleLen)}

\* A store as another process may have left it: empty, or one backup of
\* whole chunks with every chunk object present.
InitStores ==
    {[root |-> Some(PaddedHashes(f)),
      objs |-> {[hash |-> Hash(c), data |-> c] :
                  c \in {ChunkAt(f, k) : k \in 0..(FullChunks(f) - 1)}}] :
        f \in {g \in Files : Len(g) = MaxStaleLen * CHUNK_SIZE}}
    \cup {[root |-> None, objs |-> {}]}

NoStart ==
    [root |-> None, objs |-> {}, hashes_stored |-> {}, metadata |-> None,
     emit |-> {}]

IdlePipe ==
    /\ mode = "idle" /\ file = <<>> /\ initial = FALSE
    /\ rd_pc = "off" /\ rd_idx = 0 /\ hashing = {} /\ hash_ch = <<>>
    /\ up_pc = "off" /\ blob = <<>> /\ cur = None /\ join_set = <<>>
    /\ fetch_pc = "off" /\ fetch_blob = <<>> /\ fetch_i = 1 /\ chunk_ch = <<>>
    /\ write_pc = "off" /\ out = <<>> /\ out_old = <<>>
    /\ start = NoStart /\ puts = {} /\ read_failed = FALSE /\ put_failed = FALSE
    /\ hist = <<>>
    /\ delta = {}
    /\ other = [pc |-> "off", blob |-> <<>>, todo |-> {}]

\* An empty store and no cache file: MaxIngests ingests follow, none of
\* them disturbed by an I/O failure.
InitFresh ==
    /\ store_root = None /\ store_objs = {}
    /\ hashes_stored = {} /\ metadata = None
    /\ budget = MaxIngests /\ faults = 0

\* Any store with any cache file, agreeing or not: one ingest follows, in
\* which up to MaxFaults I/O operations fail.
InitStale ==
    /\ \E s \in InitStores : store_root = s.root /\ store_objs = s.objs
    /\ \E c \in InitCaches :
          hashes_stored = c.hashes_stored /\ metadata = c.metadata
    /\ budget = 1 /\ faults = MaxFaults

InitPipe ==
    /\ IdlePipe
    /\ InitFresh \/ InitStale

\* ----------------------------------------------------------- the ingest
Done(pc) == pc \in {"ok", "err", "panic"}

\* The hash receiver is dropped when upload returns (lib.rs:205: the task
\* owns the uploader and with it hash_rx).
ReceiverDropped == up_pc \in {"ok", "err"}

\* A channel whose permits are counted on the queued messages alone.
PermitsQueued == Len(hash_ch)

\* Permits of the hash channel in use: one per queued message and one per
\* block being hashed (lib.rs:182, 188-191).
PermitsUsed == Len(hash_ch) + Cardinality(hashing)

\* A channel one of whose senders is never dropped.
SenderKept == FALSE

\* A receive loop that stops as soon as the channel is empty.
ChannelEmpty == hash_ch = <<>>

\* Every sender is gone: the reader closure returned (dropping hash_tx) and
\* no rayon task still holds an owned permit (lib.rs:188-191).
ChannelClosed == Done(rd_pc) /\ hashing = {}

\* file.read_exact(&mut buffer) at block idx (lib.rs:184): the block, or
\* UnexpectedEof (None) when fewer than CHUNK_SIZE bytes are left.
read_exact(f, idx) ==
    IF (idx + 1) * CHUNK_SIZE <= Len(f) THEN Some(ChunkAt(f, idx)) ELSE None

\* A manifest cut at the block received: the hash goes to idx and to every
\* slot after it.
SetHash_tail(b, idx, h) ==
    [i \in 1..(IF Len(b) <= idx THEN idx + 1 ELSE Len(b)) |->
        IF i <= idx /\ i <= Len(b) THEN b[i] ELSE h]

\* A manifest that takes the hashes in the order they arrive.
SetHash_push(b, idx, h) == Append(b, h)

\* lib.rs:72-76: resize(idx + 1, hash) fills every new slot with this hash.
SetHash(b, idx, h) ==
    IF Len(b) <= idx
    THEN [i \in 1..(idx + 1) |-> IF i <= Len(b) THEN b[i] ELSE h]
    ELSE [b EXCEPT ![idx + 1] = h]

\* A permit that is taken only for the put itself.
PermitsHeld_put == Cardinality({i \in DOMAIN join_set : join_set[i].pc = "put"})

\* Upload workers holding a semaphore permit (lib.rs:78-82).
Running(w) == w.pc \in {"has_block", "put"}
PermitsHeld == Cardinality({i \in DOMAIN join_set : Running(join_set[i])})

\* Chunk buffers alive: blocks read and not yet hashed, blocks queued in the
\* hash channel, the block upload holds while it awaits a permit, and the
\* blocks owned by running workers (lib.rs:183-190, 71-81).
BuffersAlive ==
    Cardinality(hashing) + Len(hash_ch) + Cardinality(cur) + PermitsHeld

\* Dropping the JoinSet aborts every task that has not finished.
Aborted(js) ==
    [i \in DOMAIN js |-> IF Running(js[i]) THEN [js[i] EXCEPT !.pc = "aborted"]
                         ELSE js[i]]

\* backup(storage, file, initial) (lib.rs:171-205): the channel is created
\* and the reader and the uploader are spawned.
BackupStart(f, ini) ==
    /\ mode = "idle" /\ budget > 0
    /\ mode' = "backup" /\ file' = f /\ initial' = ini
    /\ budget' = budget - 1
    /\ rd_pc' = "loop" /\ rd_idx' = 0 /\ hashing' = {}
    /\ hash_ch' = <<>>
    /\ up_pc' = "start" /\ blob' = <<>> /\ cur' = None /\ join_set' = <<>>
    /\ fetch_pc' = "off" /\ fetch_blob' = <<>> /\ fetch_i' = 1
    /\ chunk_ch' = <<>> /\ write_pc' = "off" /\ out' = <<>> /\ out_old' = <<>>
    /\ start' = [root |-> store_root, objs |-> store_objs,
                  hashes_stored |-> hashes_stored, metadata |-> metadata,
                  emit |-> 0..(FullChunks(f) - 1)]
    /\ puts' = {}
    /\ read_failed' = FALSE /\ put_failed' = FALSE
    /\ UNCHANGED <<storeVars, cacheVars, faults, hist>>

\* One turn of the reader's loop (lib.rs:181-196): reserve_owned().unwrap()
\* waits for a free permit and panics when the receiver is gone; then one
\* read_exact and the match on its result. A permit not handed to a rayon
\* task is dropped with the turn.
ReaderStep ==
    /\ mode = "backup" /\ rd_pc = "loop"
    /\ IF ReceiverDropped
       THEN /\ rd_pc' = "panic"
            /\ UNCHANGED <<rd_idx, hashing, faults, read_failed>>
       ELSE /\ PermitsUsed < HASH_CHANNEL_SIZE
            /\ \/ /\ read_exact(file, rd_idx) # None
                  /\ hashing' = hashing \cup
                       {[idx |-> rd_idx, data |-> The(read_exact(file, rd_idx))]}
                  /\ rd_idx' = rd_idx + 1
                  /\ UNCHANGED <<rd_pc, faults, read_failed>>
               \/ /\ read_exact(file, rd_idx) = None
                  /\ rd_pc' = "ok"
                  /\ UNCHANGED <<rd_idx, hashing, faults, read_failed>>
               \/ /\ faults > 0
                  /\ faults' = faults - 1 /\ read_failed' = TRUE
                  /\ rd_pc' = "err"
                  /\ UNCHANGED <<rd_idx, hashing>>
    /\ UNCHANGED <<storeVars, cacheVars, mode, file, initial, hash_ch,
                   uploadVars, restoreVars, budget, start, puts, put_failed, hist>>

\* lib.rs:188-191: a rayon task hashes its block and sends it; in any order.
HashSend(b) ==
    /\ mode = "backup" /\ b \in hashing
    /\ hashing' = hashing \ {b}
    /\ hash_ch' = IF ReceiverDropped THEN hash_ch
                  ELSE Append(hash_ch, [hash |-> Hash(b.data), idx |-> b.idx,
                                        data |-> b.data])
    /\ UNCHANGED <<storeVars, cacheVars, mode, file, initial, rd_pc, rd_idx,
                   uploadVars, restoreVars, faults, budget, ghostVars>>

\* Storage::get_root_metadata (storage.rs:95-109): the cached manifest when
\* there is one, else the store's root object (None: the get fails).
get_root_metadata == IF metadata # None THEN metadata ELSE store_root

\* Storage::has_block (storage.rs:62-87): the cache answers first, then head.
has_block(h) == h \in hashes_stored \/ StoreHas(store_objs, h)

\* upload's first statement (lib.rs:62-68). The get and the cache save of
\* get_root_metadata may fail; upload then returns the error.
UploadStart ==
    /\ mode = "backup" /\ up_pc = "start"
    /\ \/ /\ initial
          /\ blob' = <<>> /\ up_pc' = "recv"
          /\ UNCHANGED <<cacheVars, faults, hash_ch>>
       \/ /\ ~initial /\ get_root_metadata # None
          /\ blob' = The(get_root_metadata) /\ up_pc' = "recv"
          /\ metadata' = get_root_metadata
          /\ UNCHANGED <<hashes_stored, faults, hash_ch>>
       \/ /\ ~initial /\ get_root_metadata = None
          /\ up_pc' = "err" /\ hash_ch' = <<>>
          /\ UNCHANGED <<blob, cacheVars, faults>>
       \/ /\ ~initial /\ metadata = None /\ store_root # None /\ faults > 0
          /\ faults' = faults - 1
          /\ up_pc' = "err" /\ hash_ch' = <<>>
          /\ \/ UNCHANGED metadata
             \/ metadata' = store_root
          /\ UNCHANGED <<blob, hashes_stored>>
    /\ UNCHANGED <<storeVars, mode, file, initial, readerVars, cur, join_set,
                   restoreVars, budget, ghostVars>>

\* lib.rs:71-76: receive one (hash, block) and record its hash; when the
\* channel is closed and empty, leave the loop.
UploadRecv ==
    /\ mode = "backup" /\ up_pc = "recv"
    /\ IF hash_ch # <<>>
       THEN /\ blob' = SetHash(blob, Head(hash_ch).idx, Head(hash_ch).hash)
            /\ cur' = Some(Head(hash_ch))
            /\ hash_ch' = Tail(hash_ch)
            /\ up_pc' = "acquire"
       ELSE /\ ChannelClosed
            /\ up_pc' = "join"
            /\ UNCHANGED <<blob, cur, hash_ch>>
    /\ UNCHANGED <<storeVars, cacheVars, mode, file, initial, readerVars,
                   join_set, restoreVars, faults, budget, ghostVars>>

\* lib.rs:77-82: acquire a permit and spawn the worker that owns the block.
UploadSpawn ==
    /\ mode = "backup" /\ up_pc = "acquire"
    /\ PermitsHeld < UPLOAD_PERMITS
    /\ join_set' = Append(join_set, [hash |-> The(cur).hash,
                                     data |-> The(cur).data, pc |-> "has_block"])
    /\ cur' = None /\ up_pc' = "recv"
    /\ UNCHANGED <<storeVars, cacheVars, mode, file, initial, readerVars,
                   hash_ch, blob, restoreVars, faults, budget, ghostVars>>

\* Storage::put_block up to its existence check (storage.rs:47-48, 62-87).
WorkerHasBlock(w) ==
    /\ mode = "backup" /\ w \in DOMAIN join_set
    /\ join_set[w].pc = "has_block"
    /\ IF has_block(join_set[w].hash)
       THEN /\ join_set' = [join_set EXCEPT ![w].pc = "ok"]
            /\ hashes_stored' = hashes_stored \cup {join_set[w].hash}
       ELSE /\ join_set' = [join_set EXCEPT ![w].pc = "put"]
            /\ UNCHANGED hashes_stored
    /\ UNCHANGED <<storeVars, metadata, mode, file, initial, readerVars,
                   hash_ch, up_pc, blob, cur, restoreVars, faults, budget,
                   ghostVars>>

\* Storage::has_block when the cache does not know the hash and the head
\* fails with a store error (storage.rs:62-86): head(..).is_ok() is false,
\* has_block answers false and put_block goes on to the put.
WorkerHeadFails(w) ==
    /\ mode = "backup" /\ w \in DOMAIN join_set
    /\ join_set[w].pc = "has_block"
    /\ join_set[w].hash \notin hashes_stored
    /\ faults > 0 /\ faults' = faults - 1
    /\ join_set' = [join_set EXCEPT ![w].pc = "put"]
    /\ UNCHANGED <<storeVars, cacheVars, mode, file, initial, readerVars,
                   hash_ch, up_pc, blob, cur, restoreVars, budget, ghostVars>>

\* Storage::put_block after the check (storage.rs:49-59): the put, the
\* cache insert and save_local_data; the put or the save may fail.
WorkerPut(w) ==
    /\ mode = "backup" /\ w \in DOMAIN join_set
    /\ join_set[w].pc = "put"
    /\ \/ /\ store_objs' = StorePut(store_objs, join_set[w].hash, join_set[w].data)
          /\ hashes_stored' = hashes_stored \cup {join_set[w].hash}
          /\ puts' = puts \cup {[hash |-> join_set[w].hash,
                                held |-> StoreHas(store_objs, join_set[w].hash)]}
          /\ \/ /\ join_set' = [join_set EXCEPT ![w].pc = "ok"]
                /\ UNCHANGED <<faults, put_failed>>
             \/ /\ faults > 0 /\ faults' = faults - 1
                /\ join_set' = [join_set EXCEPT ![w].pc = "err"]
                /\ put_failed' = TRUE
       \/ /\ faults > 0 /\ faults' = faults - 1
          /\ join_set' = [join_set EXCEPT ![w].pc = "err"]
          /\ put_failed' = TRUE
          /\ UNCHANGED <<store_objs, hashes_stored, puts>>
    /\ UNCHANGED <<store_root, metadata, mode, file, initial, readerVars,
                   hash_ch, up_pc, blob, cur, restoreVars, budget, start,
                   read_failed, hist>>

\* lib.rs:85-87: join_next yields a worker that failed and `result??`
\* returns its error; dropping the JoinSet aborts the workers still running.
\* Results that are Ok are consumed and change nothing.
UploadJoinErr(w) ==
    /\ mode = "backup" /\ up_pc = "join" /\ w \in DOMAIN join_set
    /\ join_set[w].pc = "err"
    /\ join_set' = Aborted(join_set)
    /\ up_pc' = "err"
    /\ UNCHANGED <<storeVars, cacheVars, mode, file, initial, readerVars,
                   hash_ch, blob, cur, restoreVars, faults, budget, ghostVars>>

\* A join loop that drops the workers' results.
AllFinished == \A i \in DOMAIN join_set : join_set[i].pc \in {"ok", "err"}

\* The JoinSet is drained with every result Ok: join_next returned None
\* (lib.rs:85).
AllJoined == \A i \in DOMAIN join_set : join_set[i].pc = "ok"

\* Storage::put_root_metadata (storage.rs:111-117) as upload's last step
\* (lib.rs:89): the put, then the cache update and save_local_data.
UploadPutRoot ==
    /\ mode = "backup" /\ up_pc = "join" /\ AllJoined
    /\ \/ /\ store_root' = Some(blob) /\ metadata' = Some(blob)
          /\ \/ up_pc' = "ok" /\ UNCHANGED faults
             \/ faults > 0 /\ faults' = faults - 1 /\ up_pc' = "err"
       \/ /\ faults > 0 /\ faults' = faults - 1
          /\ up_pc' = "err"
          /\ UNCHANGED <<store_root, metadata>>
    /\ UNCHANGED <<store_objs, hashes_stored, mode, file, initial, readerVars,
                   hash_ch, blob, cur, join_set, restoreVars, budget, ghostVars>>

\* lib.rs:208-212: try_join! of the two tasks, then both results.
BackupOk == rd_pc = "ok" /\ up_pc = "ok"

BackupJoin ==
    /\ mode = "backup" /\ Done(rd_pc) /\ ReceiverDropped /\ hashing = {}
    /\ hist' = Append(hist, [file |-> file, initial |-> initial, ok |-> BackupOk,
                             start |-> start, root |-> store_root,
                             read_failed |-> read_failed,
                             put_failed |-> put_failed])
    /\ mode' = "idle" /\ file' = <<>> /\ initial' = FALSE
    /\ rd_pc' = "off" /\ rd_idx' = 0
    /\ up_pc' = "off" /\ blob' = <<>> /\ cur' = None /\ join_set' = <<>>
    /\ hash_ch' = <<>>
    /\ start' = NoStart /\ puts' = {} /\ read_failed' = FALSE /\ put_failed' = FALSE
    /\ UNCHANGED <<storeVars, cacheVars, hashing, restoreVars, faults, budget>>

\* ------------------------------------------------- the changed-chunk ingest
\* backup_lvm_thin (lib.rs:215-254): the visitor is given the chunks d that
\* thin_delta reports as changed in the snapshot f, and upload runs with
\* initial = false.
BackupThinStart(f, d) ==
    /\ mode = "idle" /\ budget > 0
    /\ mode' = "backup" /\ file' = f /\ initial' = FALSE
    /\ budget' = budget - 1
    /\ rd_pc' = "thin" /\ rd_idx' = 0 /\ hashing' = {}
    /\ delta' = d
    /\ hash_ch' = <<>>
    /\ up_pc' = "start" /\ blob' = <<>> /\ cur' = None /\ join_set' = <<>>
    /\ fetch_pc' = "off" /\ fetch_blob' = <<>> /\ fetch_i' = 1
    /\ chunk_ch' = <<>> /\ write_pc' = "off" /\ out' = <<>> /\ out_old' = <<>>
    /\ start' = [root |-> store_root, objs |-> store_objs,
                  hashes_stored |-> hashes_stored, metadata |-> metadata,
                  emit |-> d]
    /\ puts' = {}
    /\ read_failed' = FALSE /\ put_failed' = FALSE
    /\ UNCHANGED <<storeVars, cacheVars, faults, hist>>

\* BlockDeltaVisitor::process_block (lib.rs:114-153), the task it spawns for
\* chunk idx: reserve_owned().unwrap() (the task panics when the receiver is
\* gone), then read_exact_at; a failed read is logged and the chunk is left
\* out, a read block goes to rayon. The tasks run in any order.
ThinStep(idx) ==
    /\ mode = "backup" /\ rd_pc = "thin" /\ idx \in delta
    /\ delta' = delta \ {idx}
    /\ IF ReceiverDropped
       THEN UNCHANGED <<hashing, faults, read_failed>>
       ELSE /\ PermitsUsed < HASH_CHANNEL_SIZE
            /\ \/ /\ read_exact(file, idx) # None
                  /\ hashing' = hashing \cup
                       {[idx |-> idx, data |-> The(read_exact(file, idx))]}
                  /\ UNCHANGED <<faults, read_failed>>
               \/ /\ read_exact(file, idx) = None
                  /\ read_failed' = TRUE
                  /\ UNCHANGED <<hashing, faults>>
               \/ /\ faults > 0
                  /\ faults' = faults - 1 /\ read_failed' = TRUE
                  /\ UNCHANGED hashing
    /\ UNCHANGED <<storeVars, cacheVars, mode, file, initial, rd_pc, rd_idx,
                   hash_ch, uploadVars, restoreVars, budget, start, puts,
                   put_failed, hist>>

\* lib.rs:246-250: delta_with_visitor has returned Ok and the last reader
\* task has ended: the visitor's sender and every clone of it are dropped.
ThinDone ==
    /\ mode = "backup" /\ rd_pc = "thin" /\ delta = {}
    /\ rd_pc' = "ok"
    /\ UNCHANGED <<storeVars, cacheVars, mode, file, initial, rd_idx, hashing,
                   hash_ch, uploadVars, restoreVars, faults, budget, ghostVars,
                   delta>>

\* ------------------------------------------------------ a second ingest
\* Another backup(storage2, f, ini) over the same object store, by a Storage
\* of its own with no cache file, seen through what it does to the store:
\* upload takes its starting manifest (lib.rs:62-68), every block of f sets
\* its index (lib.rs:72-76) and is put unless the store has it
\* (storage.rs:47-53), and after the last worker the root is put (lib.rs:89).
OtherManifest(f, old) ==
    [k \in 1..(IF Len(old) > FullChunks(f) THEN Len(old) ELSE FullChunks(f)) |->
        IF k <= FullChunks(f) THEN Hash(ChunkAt(f, k - 1)) ELSE old[k]]

OtherStart(f, ini) ==
    /\ other.pc = "off"
    /\ IF ~ini /\ store_root = None
       THEN other' = [pc |-> "err", blob |-> <<>>, todo |-> {}]
       ELSE other' = [pc |-> "run",
                      blob |-> OtherManifest(f, IF ini THEN <<>> ELSE The(store_root)),
                      todo |-> {ChunkAt(f, k) : k \in 0..(FullChunks(f) - 1)}]
    /\ UNCHANGED <<pipeVars, delta>>

\* One worker of the other ingest: put_block of chunk c.
OtherPut(c) ==
    /\ other.pc = "run" /\ c \in other.todo
    /\ store_objs' = IF StoreHas(store_objs, Hash(c)) THEN store_objs
                     ELSE StorePut(store_objs, Hash(c), c)
    /\ other' = [other EXCEPT !.todo = other.todo \ {c}]
    /\ UNCHANGED <<store_root, cacheVars, mode, file, initial, readerVars,
                   hash_ch, uploadVars, restoreVars, faults, budget, ghostVars,
                   delta>>

\* The other ingest's put_root_metadata, after all its workers.
OtherPutRoot ==
    /\ other.pc = "run" /\ other.todo = {}
    /\ store_root' = Some(other.blob)
    /\ other' = [other EXCEPT !.pc = "ok"]
    /\ UNCHANGED <<store_objs, cacheVars, mode, file, initial, readerVars,
                   hash_ch, uploadVars, restoreVars, faults, budget, ghostVars,
                   delta>>

\* ---------------------------------------------------------- the restore
\* restore(storage, output_path) (lib.rs:263-285): the channel is created,
\* fetch_task and write_task are spawned; write_task opens the output path,
\* which holds `old` (empty for a new file), with create and write and
\* without truncate, so it writes from offset 0 over what is there.
RestoreStart(old) ==
    /\ mode = "idle"
    /\ mode' = "restore"
    /\ fetch_pc' = "root" /\ fetch_blob' = <<>> /\ fetch_i' = 1
    /\ chunk_ch' = <<>> /\ write_pc' = "recv" /\ out' = <<>>
    /\ out_old' = old
    /\ UNCHANGED <<storeVars, cacheVars, file, initial, readerVars, hash_ch,
                   uploadVars, faults, budget, ghostVars>>

\* lib.rs:269: the manifest to restore.
FetchRoot ==
    /\ mode = "restore" /\ fetch_pc = "root"
    /\ IF get_root_metadata = None
       THEN fetch_pc' = "err" /\ UNCHANGED <<fetch_blob, metadata>>
       ELSE /\ fetch_blob' = The(get_root_metadata)
            /\ metadata' = get_root_metadata
            /\ fetch_pc' = "chunks"
    /\ UNCHANGED <<storeVars, hashes_stored, mode, file, initial, readerVars,
                   hash_ch, uploadVars, fetch_i, chunk_ch, write_pc, out,
                   out_old, faults, budget, ghostVars>>

\* A fetch that sends whatever the store returned.
HashUnchecked(h, data) == TRUE

\* lib.rs:272: the check of the fetched bytes against the manifest's hash.
HashMatches(h, data) == Hash(data) = h

\* fetch_task has returned: Ok, a store error, or the hash-mismatch bail!.
FetchDone == fetch_pc \in {"ok", "err", "mismatch"}

\* lib.rs:270-277: get_block, the hash check and the send of one chunk, which
\* fails when write_task has returned and dropped chunk_rx; after the last
\* chunk the task returns Ok and drops chunk_tx.
FetchChunk ==
    /\ mode = "restore" /\ fetch_pc = "chunks"
    /\ IF fetch_i > Len(fetch_blob)
       THEN fetch_pc' = "ok" /\ UNCHANGED <<fetch_i, chunk_ch>>
       ELSE IF ~StoreHas(store_objs, fetch_blob[fetch_i])
       THEN fetch_pc' = "err" /\ UNCHANGED <<fetch_i, chunk_ch>>
       ELSE IF ~HashMatches(fetch_blob[fetch_i],
                            StoreGet(store_objs, fetch_blob[fetch_i]))
       THEN fetch_pc' = "mismatch" /\ UNCHANGED <<fetch_i, chunk_ch>>
       ELSE IF write_pc = "err"
       THEN fetch_pc' = "err" /\ UNCHANGED <<fetch_i, chunk_ch>>
       ELSE /\ Len(chunk_ch) < HASH_CHANNEL_SIZE
            /\ chunk_ch' = Append(chunk_ch, StoreGet(store_objs, fetch_blob[fetch_i]))
            /\ fetch_i' = fetch_i + 1
            /\ UNCHANGED fetch_pc
    /\ UNCHANGED <<storeVars, cacheVars, mode, file, initial, readerVars,
                   hash_ch, uploadVars, fetch_blob, write_pc, out, out_old,
                   faults, budget, ghostVars>>

\* lib.rs:287-293: write_all of each received chunk; flush when the channel
\* is closed and empty.
WriterRecv ==
    /\ mode = "restore" /\ write_pc = "recv"
    /\ IF chunk_ch # <<>>
       THEN /\ out' = out \o Head(chunk_ch)
            /\ chunk_ch' = Tail(chunk_ch)
            /\ UNCHANGED write_pc
       ELSE /\ FetchDone
            /\ write_pc' = "ok"
            /\ UNCHANGED <<out, chunk_ch>>
    /\ UNCHANGED <<storeVars, cacheVars, mode, file, initial, readerVars,
                   hash_ch, uploadVars, fetch_pc, fetch_blob, fetch_i, out_old,
                   faults, budget, ghostVars>>

\* lib.rs:281-293: opening the output, a write_all or the flush fails;
\* write_task returns the error and drops chunk_rx with what is queued.
WriterFails ==
    /\ mode = "restore" /\ write_pc = "recv"
    /\ faults > 0 /\ faults' = faults - 1
    /\ write_pc' = "err" /\ chunk_ch' = <<>>
    /\ UNCHANGED <<storeVars, cacheVars, mode, file, initial, readerVars,
                   hash_ch, uploadVars, fetch_pc, fetch_blob, fetch_i, out,
                   out_old, budget, ghostVars>>

\* lib.rs:296-300: try_join! of the two tasks, then both results.
RestoreJoin ==
    /\ mode = "restore" /\ FetchDone /\ write_pc \in {"ok", "err"}
    /\ mode' = "idle"
    /\ UNCHANGED <<storeVars, cacheVars, file, initial, readerVars, hash_ch,
                   uploadVars, restoreVars, faults, budget, ghostVars>>

\* restore returned Ok, and nothing ran since.
RestoreOk == mode = "idle" /\ fetch_pc = "ok" /\ write_pc = "ok"

\* The output file: the bytes written, then what is left of the old contents
\* beyond them.
OutputFile == out \o SubSeq(out_old, Len(out) + 1, Len(out_old))

\* ------------------------------------------------------ the Document part
\* blob.rs. A Blob is [chunk_hashes, timestamp]; a PrevBlob is
\* [same_chunks_lengths, diff_chunks, timestamp].
VARIABLES
    doc_pc,         \* "none": no Document yet; "live"; "panic": an assertion failed
    doc_current,    \* Document.current (blob.rs:14)
    doc_history,    \* Document.history (blob.rs:15)
    doc_blobs,      \* every blob the Document was given, oldest first
    \* one call of PrevBlob::from_diff (blob.rs:85-120) on its own
    diff,           \* [pc, new, prev, pb, out]
    \* a Storage seen through the keys it writes (storage.rs:36-38, 47-117)
    keys,           \* [pc, root_key, objs, hashes_stored, metadata, blocks, puts]
    \* one value taken through bincode and through the root object
    codec,          \* [pc, doc, bytes, back, again, obj, metadata, got]
    \* a BlockDeltaVisitor (lib.rs:93-169) seen through the chunks it reads
    visitor         \* [pc, data_block_size_bytes, processed_queue, reads, seen, last, n]

docVars == <<doc_pc, doc_current, doc_history, doc_blobs>>
pureVars == <<docVars, diff, keys, codec, visitor>>
sideVars == <<pureVars, delta, other>>
vars == <<pipeVars, sideVars>>

\* blob.rs:48: the placeholder; real hashes are the other values.
FAKE_HASH == 0
DocHashes == {FAKE_HASH, 1, 2}
Times == {1, 2}
DocBlobs ==
    {[chunk_hashes |-> h, timestamp |-> t] :
        h \in UNION {[1..n -> DocHashes] : n \in 0..MaxDocLen}, t \in Times}
NoBlob == [chunk_hashes |-> <<>>, timestamp |-> 0]

\* Blob::verify_invariants (blob.rs:78-80).
verify_invariants(b) == \A i \in DOMAIN b.chunk_hashes : b.chunk_hashes[i] # FAKE_HASH

\* A diff loop that records a run only when it is not empty.
RECURSIVE DiffLoop_nozero(_, _, _, _, _, _)
DiffLoop_nozero(current, prev, i, run, runs, diffs) ==
    IF i > Len(prev) THEN [run |-> run, runs |-> runs, diffs |-> diffs]
    ELSE IF i <= Len(current) /\ current[i] = prev[i]
    THEN DiffLoop_nozero(current, prev, i + 1, run + 1, runs, diffs)
    ELSE DiffLoop_nozero(current, prev, i + 1, 0,
                         IF run > 0 THEN Append(runs, run) ELSE runs,
                         Append(diffs, prev[i]))

\* A diff loop that stops where the new version ends.
RECURSIVE DiffLoop_short(_, _, _, _, _, _)
DiffLoop_short(current, prev, i, run, runs, diffs) ==
    IF i > Len(prev) \/ i > Len(current)
    THEN [run |-> run, runs |-> runs, diffs |-> diffs]
    ELSE IF current[i] = prev[i]
    THEN DiffLoop_short(current, prev, i + 1, run + 1, runs, diffs)
    ELSE DiffLoop_short(current, prev, i + 1, 0, Append(runs, run),
                        Append(diffs, prev[i]))

\* The loop of PrevBlob::from_diff (blob.rs:91-99) from index i (1-based), with
\* the run counted so far and the two vectors built so far.
RECURSIVE DiffLoop(_, _, _, _, _, _)
DiffLoop(current, prev, i, run, runs, diffs) ==
    IF i > Len(prev) THEN [run |-> run, runs |-> runs, diffs |-> diffs]
    ELSE IF i <= Len(current) /\ current[i] = prev[i]
    THEN DiffLoop(current, prev, i + 1, run + 1, runs, diffs)
    ELSE DiffLoop(current, prev, i + 1, 0, Append(runs, run), Append(diffs, prev[i]))

\* PrevBlob::from_diff (blob.rs:85-109): the value it builds.
from_diff(current, prev) ==
    LET l == DiffLoop(current.chunk_hashes, prev.chunk_hashes, 1, 0, <<>>, <<>>)
    IN  [same_chunks_lengths |-> IF l.run > 0 THEN Append(l.runs, l.run) ELSE l.runs,
         diff_chunks |-> l.diffs,
         timestamp |-> prev.timestamp]

Min(a, b) == IF a < b THEN a ELSE b

\* A compute loop that does not step over the replaced hash of the next
\* version when it takes a diff.
RECURSIVE ComputeLoop_noskip(_, _, _, _, _)
ComputeLoop_noskip(pb, next, r, n, acc) ==
    IF r > Len(pb.same_chunks_lengths) THEN Some(acc)
    ELSE LET len == pb.same_chunks_lengths[r]
             copied == acc \o SubSeq(next, n + 1, n + len)
         IN  IF n + len > Len(next) THEN None
             ELSE IF r <= Len(pb.diff_chunks)
             THEN ComputeLoop_noskip(pb, next, r + 1, n + len,
                                     Append(copied, pb.diff_chunks[r]))
             ELSE ComputeLoop_noskip(pb, next, r + 1, n + len, copied)

\* The loop of PrevBlob::compute (blob.rs:128-139) from run r, with n hashes
\* of the next version consumed: None when next_chunks.next().unwrap() panics.
\* The r-th run takes the r-th diff, while there is one.
RECURSIVE ComputeLoop(_, _, _, _, _)
ComputeLoop(pb, next, r, n, acc) ==
    IF r > Len(pb.same_chunks_lengths) THEN Some(acc)
    ELSE LET len == pb.same_chunks_lengths[r]
             copied == acc \o SubSeq(next, n + 1, n + len)
         IN  IF n + len > Len(next) THEN None
             ELSE IF r <= Len(pb.diff_chunks)
             THEN ComputeLoop(pb, next, r + 1, Min(n + len + 1, Len(next)),
                              Append(copied, pb.diff_chunks[r]))
             ELSE ComputeLoop(pb, next, r + 1, n + len, copied)

\* PrevBlob::compute (blob.rs:123-145): Option<Blob>, None for a panic.
compute(pb, next_version) ==
    LET c == ComputeLoop(pb, next_version.chunk_hashes, 1, 0, <<>>)
    IN  IF c = None THEN None
        ELSE Some([chunk_hashes |-> The(c), timestamp |-> pb.timestamp])

\* The two assertions that end from_diff (blob.rs:111-117): the usize
\* subtraction must not underflow and be below 2, and compute must give prev.
from_diff_asserts(current, prev) ==
    LET pb == from_diff(current, prev)
        d == Len(pb.same_chunks_lengths) - Len(pb.diff_chunks)
    IN  /\ d >= 0 /\ d < 2
        /\ compute(pb, current) = Some(prev)

\* An update that records nothing when the hash sequence did not change.
update_merged(current, history, new_blob) ==
    [current |-> new_blob,
     history |-> IF new_blob.chunk_hashes = current.chunk_hashes THEN history
                 ELSE Append(history, from_diff(new_blob, current))]

\* An update that diffs the wrong way round.
update_swapped(current, history, new_blob) ==
    [current |-> new_blob,
     history |-> Append(history, from_diff(current, new_blob))]

\* Document::update (blob.rs:36-42): the new history and current.
update(current, history, new_blob) ==
    [current |-> new_blob,
     history |-> Append(history, from_diff(new_blob, current))]

\* Document::versions (blob.rs:43-45) walked with compute: the blob that
\* history[j] recorded, rebuilt from current through history[n], ..., history[j].
RECURSIVE Version(_)
Version(j) ==
    IF j > Len(doc_history) THEN Some(doc_current)
    ELSE LET nxt == Version(j + 1)
         IN  IF nxt = None THEN None ELSE compute(doc_history[j], The(nxt))

DocIdle ==
    /\ doc_pc = "none" /\ doc_current = NoBlob
    /\ doc_history = <<>> /\ doc_blobs = <<>>

\* Document::new (blob.rs:27-32).
DocNew(b) ==
    /\ doc_pc = "none"
    /\ doc_pc' = "live" /\ doc_current' = b
    /\ doc_history' = <<>> /\ doc_blobs' = <<b>>

\* Document::update (blob.rs:36-42), with the assertions it runs into.
DocUpdate(b) ==
    /\ doc_pc = "live" /\ Len(doc_history) < MaxUpdates
    /\ IF verify_invariants(b) /\ from_diff_asserts(b, doc_current)
       THEN /\ doc_current' = update(doc_current, doc_history, b).current
            /\ doc_history' = update(doc_current, doc_history, b).history
            /\ doc_blobs' = Append(doc_blobs, b)
            /\ UNCHANGED doc_pc
       ELSE /\ doc_pc' = "panic"
            /\ UNCHANGED <<doc_current, doc_history, doc_blobs>>

\* ------------------------------------------- PrevBlob::from_diff alone
NoPrev == [same_chunks_lengths |-> <<>>, diff_chunks |-> <<>>, timestamp |-> 0]
DiffOff == diff = [pc |-> "off", new |-> NoBlob, prev |-> NoBlob,
                   pb |-> NoPrev, out |-> None]

\* A call from_diff(new, prev) about to run, for any two blobs.
DiffCalls ==
    {[pc |-> "call", new |-> n, prev |-> p, pb |-> NoPrev, out |-> None] :
        n \in DocBlobs, p \in DocBlobs}

\* blob.rs:86-109: the loop and the struct it fills.
FromDiffBuild ==
    /\ diff.pc = "call"
    /\ diff' = [diff EXCEPT !.pc = "built", !.pb = from_diff(diff.new, diff.prev)]

\* blob.rs:111-119: the two assertions, the second on the value of
\* result.compute(current); a failed assertion or unwrap is a panic.
FromDiffAssert ==
    /\ diff.pc = "built"
    /\ diff' = [diff EXCEPT
                  !.out = compute(diff.pb, diff.new),
                  !.pc = IF from_diff_asserts(diff.new, diff.prev)
                         THEN "ok" ELSE "panic"]

\* ------------------------------------------------- the keys of a Storage
\* A blake3 hash is HASH_LEN raw bytes (32 in the source, blob.rs:7).
HASH_LEN == 2
MaxHashByte == 2
MaxKeyPuts == 3
KeyHashes == [1..HASH_LEN -> 0..MaxHashByte]

\* The base64url alphabet (BASE64_URL_SAFE).
Alphabet ==
    <<"A", "B", "C", "D", "E", "F", "G", "H", "I", "J", "K", "L", "M",
      "N", "O", "P", "Q", "R", "S", "T", "U", "V", "W", "X", "Y", "Z",
      "a", "b", "c", "d", "e", "f", "g", "h", "i", "j", "k", "l", "m",
      "n", "o", "p", "q", "r", "s", "t", "u", "v", "w", "x", "y", "z",
      "0", "1", "2", "3", "4", "5", "6", "7", "8", "9", "-", "_">>

\* The number a byte string spells, most significant byte first.
RECURSIVE BigEndian(_, _)
BigEndian(bytes, n) ==
    IF n = 0 THEN 0 ELSE BigEndian(bytes, n - 1) * 256 + bytes[n]

\* BASE64_URL_SAFE_NO_PAD.encode (storage.rs:37): the bits of the bytes in
\* groups of six, the last group filled with zero bits, no '=' appended.
base64_encode(bytes) ==
    LET nchars == (8 * Len(bytes) + 5) \div 6
        bits == BigEndian(bytes, Len(bytes)) * Pow(2, 6 * nchars - 8 * Len(bytes))
    IN  [i \in 1..nchars |-> Alphabet[((bits \div Pow(64, nchars - i)) % 64) + 1]]

\* Storage::object_path (storage.rs:36-38). Path::from leaves a string of
\* base64url characters as it is: no delimiter, nothing to escape.
object_path(key) == base64_encode(key)

\* root_key is whatever Path the caller of Storage::new gives
\* (storage.rs:15-18): an ordinary name, or any short name over a few
\* characters of the same length as a chunk key.
NameChars == {"A", "Q", "r"}
RootKeys ==
    {<<"r", "o", "o", "t">>} \cup [1..((8 * HASH_LEN + 5) \div 6) -> NameChars]

\* The objects a Storage may hold: the bytes of a block with a given hash,
\* or an encoded root Blob.
BlockObject(h) == [kind |-> "block", hash |-> h]
RootObject(b) == [kind |-> "root", blob |-> b]
KeyBlobs == {<<>>} \cup {<<h>> : h \in KeyHashes}

\* ObjectStore::put and ::head on one path: put replaces what is there.
KeyPut(objs, path, val) ==
    {o \in objs : o.key # path} \cup {[key |-> path, val |-> val]}
KeyHead(objs, path) == \E o \in objs : o.key = path
KeyGet(objs, path) == {o.val : o \in {p \in objs : p.key = path}}

KeysOff ==
    keys = [pc |-> "off", root_key |-> <<>>, objs |-> {}, hashes_stored |-> {},
            metadata |-> None, blocks |-> {}, puts |-> 0]

\* Storage::new over an empty store with no cache file (storage.rs:15-34).
KeysNew ==
    {[pc |-> "on", root_key |-> rk, objs |-> {}, hashes_stored |-> {},
      metadata |-> None, blocks |-> {}, puts |-> 0] : rk \in RootKeys}

\* Storage::put_block (storage.rs:47-60) with has_block (storage.rs:62-86)
\* inside it; blocks records the hashes put_block returned Ok for.
KeyPutBlock(h) ==
    /\ keys.pc = "on" /\ keys.puts < MaxKeyPuts
    /\ LET path == object_path(h)
           has == h \in keys.hashes_stored \/ KeyHead(keys.objs, path)
       IN  keys' = [keys EXCEPT
                      !.objs = IF has THEN @ ELSE KeyPut(@, path, BlockObject(h)),
                      !.hashes_stored = @ \cup {h},
                      !.blocks = @ \cup {h},
                      !.puts = @ + 1]

\* Storage::put_root_metadata (storage.rs:111-117).
KeyPutRoot(b) ==
    /\ keys.pc = "on" /\ keys.puts < MaxKeyPuts
    /\ keys' = [keys EXCEPT
                  !.objs = KeyPut(@, keys.root_key, RootObject(b)),
                  !.metadata = Some(b),
                  !.puts = @ + 1]

\* ------------------------------------------------------ the bincode form
\* bincode::config::standard(): integers as varints, signed ones zigzag
\* first, a Vec as its length and then its elements, a fixed array as its
\* elements alone. Values of the model stay below 2^16.
MaxCodecLen == 1
CodecHashes ==
    {[i \in 1..HASH_LEN |-> (b + i - 1) % (MaxHashByte + 1)] : b \in 0..MaxHashByte}
CodecHashSeqs == UNION {[1..n -> CodecHashes] : n \in 0..MaxCodecLen}
CodecLens == {0, 1, 300}
CodecLenSeqs == UNION {[1..n -> CodecLens] : n \in 0..MaxCodecLen}
CodecTimes == {-1, 0, 300}
CodecBlobs ==
    {[chunk_hashes |-> h, timestamp |-> t] : h \in CodecHashSeqs, t \in CodecTimes}
CodecPrevs ==
    {[same_chunks_lengths |-> l, diff_chunks |-> d, timestamp |-> t] :
        l \in CodecLenSeqs, d \in CodecHashSeqs, t \in CodecTimes}
\* Documents with no history, one entry, or the same entry twice.
CodecDocuments ==
    {[current |-> c, history |-> h] :
        c \in CodecBlobs,
        h \in {<<>>} \cup {<<p>> : p \in CodecPrevs} \cup {<<p, p>> : p \in CodecPrevs}}

encode_varint(n) == IF n < 251 THEN <<n>> ELSE <<251, n % 256, n \div 256>>
zigzag(t) == IF t >= 0 THEN 2 * t ELSE -2 * t - 1
encode_i64(t) == encode_varint(zigzag(t))

\* A hash written the way a slice is: its length first.
encode_hash_slice(h) == encode_varint(Len(h)) \o h

\* HashValue::encode (hash_value.rs:19-26) and [u8; 32]: the bytes alone.
encode_hash(h) == [i \in 1..HASH_LEN |-> h[i]]

RECURSIVE encode_hashes(_, _)
encode_hashes(v, i) ==
    IF i > Len(v) THEN <<>> ELSE encode_hash(v[i]) \o encode_hashes(v, i + 1)
encode_hash_vec(v) == encode_varint(Len(v)) \o encode_hashes(v, 1)

RECURSIVE encode_usizes(_, _)
encode_usizes(v, i) ==
    IF i > Len(v) THEN <<>> ELSE encode_varint(v[i]) \o encode_usizes(v, i + 1)
encode_usize_vec(v) == encode_varint(Len(v)) \o encode_usizes(v, 1)

\* derive(Encode) writes the fields in the order they are declared.
encode_blob(b) == encode_hash_vec(b.chunk_hashes) \o encode_i64(b.timestamp)
encode_prev_blob(p) ==
    encode_usize_vec(p.same_chunks_lengths) \o encode_hash_vec(p.diff_chunks)
        \o encode_i64(p.timestamp)

RECURSIVE encode_prev_blobs(_, _)
encode_prev_blobs(v, i) ==
    IF i > Len(v) THEN <<>> ELSE encode_prev_blob(v[i]) \o encode_prev_blobs(v, i + 1)
encode_document(d) ==
    encode_blob(d.current) \o encode_varint(Len(d.history))
        \o encode_prev_blobs(d.history, 1)

\* lib.rs:24-27: the root Blob has the one field chunk_hashes.
encode_root(b) == encode_hash_vec(b)

\* A decoder returns the value it read and the bytes after it, or fails.
Fail == [ok |-> FALSE, val |-> <<>>, rest |-> <<>>]
Read(v, r) == [ok |-> TRUE, val |-> v, rest |-> r]
Rest(bytes, n) == SubSeq(bytes, n + 1, Len(bytes))

decode_varint(bytes) ==
    IF bytes = <<>> THEN Fail
    ELSE IF bytes[1] < 251 THEN Read(bytes[1], Rest(bytes, 1))
    ELSE IF bytes[1] = 251 /\ Len(bytes) >= 3
         THEN Read(bytes[2] + 256 * bytes[3], Rest(bytes, 3))
    ELSE Fail
unzigzag(u) == IF u % 2 = 0 THEN u \div 2 ELSE -((u + 1) \div 2)
decode_i64(bytes) ==
    LET r == decode_varint(bytes)
    IN  IF r.ok THEN Read(unzigzag(r.val), r.rest) ELSE Fail

\* HashValue::decode (hash_value.rs:28-36): exactly the array's bytes.
decode_hash(bytes) ==
    IF Len(bytes) < HASH_LEN THEN Fail
    ELSE Read(SubSeq(bytes, 1, HASH_LEN), Rest(bytes, HASH_LEN))

RECURSIVE decode_hashes(_, _, _)
decode_hashes(bytes, n, acc) ==
    IF n = 0 THEN Read(acc, bytes)
    ELSE LET r == decode_hash(bytes)
         IN  IF r.ok THEN decode_hashes(r.rest, n - 1, Append(acc, r.val)) ELSE Fail
decode_hash_vec(bytes) ==
    LET l == decode_varint(bytes)
    IN  IF l.ok THEN decode_hashes(l.rest, l.val, <<>>) ELSE Fail

RECURSIVE decode_usizes(_, _, _)
decode_usizes(bytes, n, acc) ==
    IF n = 0 THEN Read(acc, bytes)
    ELSE LET r == decode_varint(bytes)
         IN  IF r.ok THEN decode_usizes(r.rest, n - 1, Append(acc, r.val)) ELSE Fail
decode_usize_vec(bytes) ==
    LET l == decode_varint(bytes)
    IN  IF l.ok THEN decode_usizes(l.rest, l.val, <<>>) ELSE Fail

decode_blob(bytes) ==
    LET h == decode_hash_vec(bytes)
        t == decode_i64(h.rest)
    IN  IF h.ok /\ t.ok
        THEN Read([chunk_hashes |-> h.val, timestamp |-> t.val], t.rest)
        ELSE Fail
decode_prev_blob(bytes) ==
    LET l == decode_usize_vec(bytes)
        d == decode_hash_vec(l.rest)
        t == decode_i64(d.rest)
    IN  IF l.ok /\ d.ok /\ t.ok
        THEN Read([same_chunks_lengths |-> l.val, diff_chunks |-> d.val,
                   timestamp |-> t.val], t.rest)
        ELSE Fail

RECURSIVE decode_prev_blobs(_, _, _)
decode_prev_blobs(bytes, n, acc) ==
    IF n = 0 THEN Read(acc, bytes)
    ELSE LET r == decode_prev_blob(bytes)
         IN  IF r.ok THEN decode_prev_blobs(r.rest, n - 1, Append(acc, r.val))
             ELSE Fail
decode_document(bytes) ==
    LET c == decode_blob(bytes)
        n == decode_varint(c.rest)
        h == decode_prev_blobs(n.rest, n.val, <<>>)
    IN  IF c.ok /\ n.ok /\ h.ok
        THEN Read([current |-> c.val, history |-> h.val], h.rest)
        ELSE Fail
decode_root(bytes) == decode_hash_vec(bytes)

\* bincode::decode_from_slice(..)?.0: the value, bytes left over ignored.
Decoded(r) == IF r.ok THEN Some(r.val) ELSE None

NoDocument == [current |-> NoBlob, history |-> <<>>]
CodecOff ==
    codec = [pc |-> "off", doc |-> NoDocument, bytes |-> <<>>, back |-> None,
             again |-> <<>>, obj |-> None, metadata |-> None, got |-> None]
CodecJobs ==
    {[pc |-> "doc", doc |-> d, bytes |-> <<>>, back |-> None, again |-> <<>>,
      obj |-> None, metadata |-> None, got |-> None] : d \in CodecDocuments}

\* bincode::encode_to_vec(&document, standard()).
CodecEncode ==
    /\ codec.pc = "doc"
    /\ codec' = [codec EXCEPT !.pc = "encoded", !.bytes = encode_document(codec.doc)]

\* bincode::decode_from_slice(&bytes, standard()).
CodecDecode ==
    /\ codec.pc = "encoded"
    /\ codec' = [codec EXCEPT !.pc = "decoded",
                              !.back = Decoded(decode_document(codec.bytes))]

\* The decoded value encoded again.
CodecReencode ==
    /\ codec.pc = "decoded" /\ codec.back # None
    /\ codec' = [codec EXCEPT !.pc = "reencoded",
                              !.again = encode_document(The(codec.back))]

\* Storage::put_root_metadata (storage.rs:111-117) of the hash list of
\* current: the encoded bytes go to the store, the value to the cache.
CodecPutRoot ==
    /\ codec.pc = "reencoded"
    /\ codec' = [codec EXCEPT
                   !.pc = "put",
                   !.obj = Some(encode_root(codec.doc.current.chunk_hashes)),
                   !.metadata = Some(codec.doc.current.chunk_hashes)]

\* Storage::get_root_metadata (storage.rs:95-109), by the Storage that put
\* the root (cached) or by one made afterwards with no cache file.
CodecGetRoot(cached) ==
    /\ codec.pc = "put"
    /\ codec' = [codec EXCEPT
                   !.pc = "got",
                   !.got = IF cached THEN codec.metadata
                           ELSE Decoded(decode_root(The(codec.obj))),
                   !.metadata = IF cached THEN @ ELSE None]

\* ------------------------------------------------ the BlockDeltaVisitor
\* thin_delta reports changed regions [thin_begin, thin_begin + len) in data
\* blocks; the superblock gives the size of a data block.
QUEUE_LIMIT == 2
MaxBlock == 3
MaxRegionLen == 2
MaxDeltas == 4
BlockSizes == {CHUNK_SIZE \div 2, CHUNK_SIZE, 2 * CHUNK_SIZE}
Regions == [thin_begin : 0..MaxBlock, len : 1..MaxRegionLen]
DeltaKinds == {"LeftOnly", "RightOnly", "Differ", "Same"}

VisitorOff ==
    visitor = [pc |-> "off", data_block_size_bytes |-> None,
               processed_queue |-> <<>>, reads |-> <<>>, seen |-> {},
               last |-> None, n |-> 0]

\* BlockDeltaVisitor::new (lib.rs:102-112).
VisitorNew ==
    [pc |-> "new", data_block_size_bytes |-> None, processed_queue |-> <<>>,
     reads |-> <<>>, seen |-> {}, last |-> None, n |-> 0]

\* lib.rs:119-120: the chunk that holds the first byte of data block
\* thin_begin.
chunk_of(thin_begin, data_block_size_bytes) ==
    (thin_begin * data_block_size_bytes) \div CHUNK_SIZE

\* A window that takes an index whether or not it holds it already.
window_push_nocheck(q, c) ==
    IF Len(q) + 1 > QUEUE_LIMIT THEN Tail(Append(q, c)) ELSE Append(q, c)

\* lib.rs:123-129: an index the queue holds is left out; a new one is pushed
\* at the back and, past the limit, the front is popped.
window_push(q, c) ==
    IF c \in Range(q) THEN q
    ELSE IF Len(q) + 1 > QUEUE_LIMIT THEN Tail(Append(q, c)) ELSE Append(q, c)

\* DeltaVisitor::superblock_b (lib.rs:157-160).
VisitSuperblock(bs) ==
    /\ visitor.pc = "new"
    /\ visitor' = [visitor EXCEPT !.pc = "run", !.data_block_size_bytes = Some(bs)]

\* DeltaVisitor::delta (lib.rs:161-168) with process_block (lib.rs:114-153):
\* Same does nothing; every other kind processes m.thin_begin, and a chunk
\* index not in the queue gets a task that reads the chunk. reads lists the
\* chunks given a task, seen the regions reported as changed, last the chunk
\* index of the last one.
VisitDelta(kind, m) ==
    /\ visitor.pc = "run" /\ visitor.n < MaxDeltas
    /\ IF kind = "Same"
       THEN visitor' = [visitor EXCEPT !.n = @ + 1, !.last = None]
       ELSE LET c == chunk_of(m.thin_begin, The(visitor.data_block_size_bytes))
            IN  visitor' = [visitor EXCEPT
                   !.n = @ + 1,
                   !.last = Some(c),
                   !.seen = @ \cup {m},
                   !.processed_queue = window_push(@, c),
                   !.reads = IF window_push(visitor.processed_queue, c)
                                = visitor.processed_queue
                             THEN @ ELSE Append(@, c)]

\* ------------------------------------------------------- specification
Next ==
    \/ \E f \in Files, ini \in BOOLEAN : BackupStart(f, ini) /\ UNCHANGED sideVars
    \/ ReaderStep /\ UNCHANGED sideVars
    \/ \E b \in hashing : HashSend(b) /\ UNCHANGED sideVars
    \/ UploadStart /\ UNCHANGED sideVars
    \/ UploadRecv /\ UNCHANGED sideVars
    \/ UploadSpawn /\ UNCHANGED sideVars
    \/ \E w \in DOMAIN join_set : WorkerHasBlock(w) /\ UNCHANGED sideVars
    \/ \E w \in DOMAIN join_set : WorkerPut(w) /\ UNCHANGED sideVars
    \/ \E w \in DOMAIN join_set : UploadJoinErr(w) /\ UNCHANGED sideVars
    \/ UploadPutRoot /\ UNCHANGED sideVars
    \/ BackupJoin /\ UNCHANGED sideVars
    \/ RestoreStart(<<>>) /\ UNCHANGED sideVars
    \/ FetchRoot /\ UNCHANGED sideVars
    \/ FetchChunk /\ UNCHANGED sideVars
    \/ WriterRecv /\ UNCHANGED sideVars
    \/ RestoreJoin /\ UNCHANGED sideVars

Init == InitPipe /\ DocIdle /\ DiffOff /\ KeysOff /\ CodecOff /\ VisitorOff

Spec == Init /\ [][Next]_vars

\* The Document alone: one Document::new, then updates.
InitDoc == IdlePipe /\ InitFresh /\ DocIdle /\ DiffOff /\ KeysOff /\ CodecOff /\ VisitorOff

NextDoc ==
    \/ \E b \in DocBlobs : DocNew(b) /\ UNCHANGED <<allPipe, diff, keys, codec, visitor>>
    \/ \E b \in DocBlobs : DocUpdate(b) /\ UNCHANGED <<allPipe, diff, keys, codec, visitor>>

SpecDoc == InitDoc /\ [][NextDoc]_vars

\* One undisturbed backup, into an empty store, of a file that has more
\* blocks than the hash channel and the upload semaphore have permits.
BigFile ==
    [i \in 1..((HASH_CHANNEL_SIZE + UPLOAD_PERMITS + 2) * CHUNK_SIZE) |->
        ((i - 1) \div CHUNK_SIZE) % (MaxByte + 1)]

InitBig ==
    /\ IdlePipe /\ DocIdle /\ DiffOff /\ KeysOff /\ CodecOff /\ VisitorOff
    /\ store_root = None /\ store_objs = {}
    /\ hashes_stored = {} /\ metadata = None
    /\ budget = 1 /\ faults = 0

NextBig ==
    \/ BackupStart(BigFile, TRUE) /\ UNCHANGED sideVars
    \/ ReaderStep /\ UNCHANGED sideVars
    \/ \E b \in hashing : HashSend(b) /\ UNCHANGED sideVars
    \/ UploadStart /\ UNCHANGED sideVars
    \/ UploadRecv /\ UNCHANGED sideVars
    \/ UploadSpawn /\ UNCHANGED sideVars
    \/ \E w \in DOMAIN join_set : WorkerHasBlock(w) /\ UNCHANGED sideVars
    \/ \E w \in DOMAIN join_set : WorkerPut(w) /\ UNCHANGED sideVars
    \/ UploadPutRoot /\ UNCHANGED sideVars
    \/ BackupJoin /\ UNCHANGED sideVars

SpecBig == InitBig /\ [][NextBig]_vars

\* One changed-chunk ingest over a store that holds a backup of whole chunks
\* and every chunk object of it; the cache file is absent.
ThinStores ==
    {[root |-> Some(PaddedHashes(f)),
      objs |-> {[hash |-> Hash(c), data |-> c] :
                  c \in {ChunkAt(f, k) : k \in 0..(FullChunks(f) - 1)}}] :
        f \in {g \in Files : WholeChunks(g) /\ FullChunks(g) <= MaxStaleLen}}

InitThin ==
    /\ IdlePipe /\ DocIdle /\ DiffOff /\ KeysOff /\ CodecOff /\ VisitorOff
    /\ \E s \in ThinStores : store_root = s.root /\ store_objs = s.objs
    /\ hashes_stored = {} /\ metadata = None
    /\ budget = 1 /\ faults = MaxFaults

NextThin ==
    \/ \E f \in {g \in Files : WholeChunks(g)} :
          \E d \in SUBSET (0..(FullChunks(f) - 1)) :
             BackupThinStart(f, d) /\ UNCHANGED <<pureVars, other>>
    \/ \E idx \in delta : ThinStep(idx) /\ UNCHANGED <<pureVars, other>>
    \/ ThinDone /\ UNCHANGED <<pureVars, other>>
    \/ \E b \in hashing : HashSend(b) /\ UNCHANGED sideVars
    \/ UploadStart /\ UNCHANGED sideVars
    \/ UploadRecv /\ UNCHANGED sideVars
    \/ UploadSpawn /\ UNCHANGED sideVars
    \/ \E w \in DOMAIN join_set : WorkerHasBlock(w) /\ UNCHANGED sideVars
    \/ \E w \in DOMAIN join_set : WorkerPut(w) /\ UNCHANGED sideVars
    \/ \E w \in DOMAIN join_set : UploadJoinErr(w) /\ UNCHANGED sideVars
    \/ UploadPutRoot /\ UNCHANGED sideVars
    \/ BackupJoin /\ UNCHANGED sideVars

SpecThin == InitThin /\ [][NextThin]_vars

\* Two ingests at once: a backup by this Storage and one by another, both
\* of files of whole chunks, over an empty store or a store that holds the
\* backup of a zero-filled file; no cache file, no I/O failure.
TwoStores ==
    {s \in ThinStores : \A o \in s.objs : o.data = [i \in 1..CHUNK_SIZE |-> 0]}
    \cup {[root |-> None, objs |-> {}]}

InitTwo ==
    /\ IdlePipe /\ DocIdle /\ DiffOff /\ KeysOff /\ CodecOff /\ VisitorOff
    /\ \E s \in TwoStores : store_root = s.root /\ store_objs = s.objs
    /\ hashes_stored = {} /\ metadata = None
    /\ budget = 1 /\ faults = 0

NextTwo ==
    \/ \E f \in {g \in Files : WholeChunks(g)}, ini \in BOOLEAN :
          BackupStart(f, ini) /\ UNCHANGED sideVars
    \/ ReaderStep /\ UNCHANGED sideVars
    \/ \E b \in hashing : HashSend(b) /\ UNCHANGED sideVars
    \/ UploadStart /\ UNCHANGED sideVars
    \/ UploadRecv /\ UNCHANGED sideVars
    \/ UploadSpawn /\ UNCHANGED sideVars
    \/ \E w \in DOMAIN join_set : WorkerHasBlock(w) /\ UNCHANGED sideVars
    \/ \E w \in DOMAIN join_set : WorkerPut(w) /\ UNCHANGED sideVars
    \/ UploadPutRoot /\ UNCHANGED sideVars
    \/ \E f \in {g \in Files : WholeChunks(g)}, ini \in BOOLEAN :
          OtherStart(f, ini) /\ UNCHANGED pureVars
    \/ \E c \in other.todo : OtherPut(c) /\ UNCHANGED pureVars
    \/ OtherPutRoot /\ UNCHANGED pureVars

SpecTwo == InitTwo /\ [][NextTwo]_vars

\* A restore on its own. The store holds one backup of whole chunks, intact,
\* or with the bytes of one chunk object replaced, or with one chunk object
\* missing; the output path is new or holds an old file.
RestoreStores ==
    LET Intact == {[root |-> Some(PaddedHashes(f)),
                    objs |-> {[hash |-> Hash(c), data |-> c] :
                                c \in {ChunkAt(f, k) : k \in 0..(FullChunks(f) - 1)}}] :
                      f \in {g \in Files : WholeChunks(g)}}
    IN  Intact
        \cup {[root |-> s.root, objs |-> (s.objs \ {o}) \cup {[hash |-> o.hash, data |-> c]}] :
                 s \in Intact, o \in UNION {t.objs : t \in Intact}, c \in Chunks}
        \cup {[root |-> s.root, objs |-> s.objs \ {o}] :
                 s \in Intact, o \in UNION {t.objs : t \in Intact}}

OldOutputs == {<<>>} \cup {[i \in 1..n |-> MaxByte] : n \in {CHUNK_SIZE, MaxFileLen}}

InitRestore ==
    /\ IdlePipe /\ DocIdle /\ DiffOff /\ KeysOff /\ CodecOff /\ VisitorOff
    /\ \E s \in RestoreStores : store_root = s.root /\ store_objs = s.objs
    /\ hashes_stored = {} /\ metadata = None
    /\ budget = 0 /\ faults = 0

NextRestore ==
    \/ \E old \in OldOutputs : RestoreStart(old) /\ UNCHANGED sideVars
    \/ FetchRoot /\ UNCHANGED sideVars
    \/ FetchChunk /\ UNCHANGED sideVars
    \/ WriterRecv /\ UNCHANGED sideVars
    \/ RestoreJoin /\ UNCHANGED sideVars

SpecRestore == InitRestore /\ [][NextRestore]_vars

\* One call of from_diff on any pair of blobs.
InitDiff == IdlePipe /\ InitFresh /\ DocIdle /\ diff \in DiffCalls /\ KeysOff /\ CodecOff /\ VisitorOff

NextDiff ==
    \/ FromDiffBuild /\ UNCHANGED <<allPipe, docVars, keys, codec, visitor>>
    \/ FromDiffAssert /\ UNCHANGED <<allPipe, docVars, keys, codec, visitor>>

SpecDiff == InitDiff /\ [][NextDiff]_vars

\* One Storage, any root_key, putting blocks and roots.
InitKeys == IdlePipe /\ InitFresh /\ DocIdle /\ DiffOff /\ keys \in KeysNew /\ CodecOff /\ VisitorOff

NextKeys ==
    \/ \E h \in KeyHashes : KeyPutBlock(h) /\ UNCHANGED <<allPipe, docVars, diff, codec, visitor>>
    \/ \E b \in KeyBlobs : KeyPutRoot(b) /\ UNCHANGED <<allPipe, docVars, diff, codec, visitor>>

SpecKeys == InitKeys /\ [][NextKeys]_vars

\* One Document through bincode and its root through the store.
InitCodec == IdlePipe /\ InitFresh /\ DocIdle /\ DiffOff /\ KeysOff /\ codec \in CodecJobs /\ VisitorOff

NextCodec ==
    \/ CodecEncode /\ UNCHANGED <<allPipe, docVars, diff, keys, visitor>>
    \/ CodecDecode /\ UNCHANGED <<allPipe, docVars, diff, keys, visitor>>
    \/ CodecReencode /\ UNCHANGED <<allPipe, docVars, diff, keys, visitor>>
    \/ CodecPutRoot /\ UNCHANGED <<allPipe, docVars, diff, keys, visitor>>
    \/ \E c \in BOOLEAN : CodecGetRoot(c) /\ UNCHANGED <<allPipe, docVars, diff, keys, visitor>>

SpecCodec == InitCodec /\ [][NextCodec]_vars

\* One backup of the same file into an empty store, with failing puts.
InitFan ==
    /\ IdlePipe /\ DocIdle /\ DiffOff /\ KeysOff /\ CodecOff /\ VisitorOff
    /\ store_root = None /\ store_objs = {}
    /\ hashes_stored = {} /\ metadata = None
    /\ budget = 1 /\ faults = MaxFaults

NextFan ==
    \/ BackupStart(BigFile, TRUE) /\ UNCHANGED sideVars
    \/ ReaderStep /\ UNCHANGED sideVars
    \/ \E b \in hashing : HashSend(b) /\ UNCHANGED sideVars
    \/ UploadStart /\ UNCHANGED sideVars
    \/ UploadRecv /\ UNCHANGED sideVars
    \/ UploadSpawn /\ UNCHANGED sideVars
    \/ \E w \in DOMAIN join_set : WorkerHasBlock(w) /\ UNCHANGED sideVars
    \/ \E w \in DOMAIN join_set : WorkerPut(w) /\ UNCHANGED sideVars
    \/ \E w \in DOMAIN join_set : UploadJoinErr(w) /\ UNCHANGED sideVars
    \/ UploadPutRoot /\ UNCHANGED sideVars
    \/ BackupJoin /\ UNCHANGED sideVars

SpecFan == InitFan /\ [][NextFan]_vars

\* One changed-chunk ingest over a store that holds a backup of a file of
\* whole chunks of any length, with every chunk object of it.
ForkStores ==
    {[root |-> Some(PaddedHashes(f)),
      objs |-> {[hash |-> Hash(c), data |-> c] :
                  c \in {ChunkAt(f, k) : k \in 0..(FullChunks(f) - 1)}}] :
        f \in {g \in Files : WholeChunks(g)}}

InitFork ==
    /\ IdlePipe /\ DocIdle /\ DiffOff /\ KeysOff /\ CodecOff /\ VisitorOff
    /\ \E s \in ForkStores : store_root = s.root /\ store_objs = s.objs
    /\ hashes_stored = {} /\ metadata = None
    /\ budget = 1 /\ faults = MaxFaults

SpecFork == InitFork /\ [][NextThin]_vars

\* One visitor over any report of thin_delta.
InitVisit ==
    /\ IdlePipe /\ InitFresh /\ DocIdle /\ DiffOff /\ KeysOff /\ CodecOff
    /\ visitor = VisitorNew

NextVisit ==
    \/ \E bs \in BlockSizes :
          VisitSuperblock(bs) /\ UNCHANGED <<allPipe, docVars, diff, keys, codec>>
    \/ \E k \in DeltaKinds, m \in Regions :
          VisitDelta(k, m) /\ UNCHANGED <<allPipe, docVars, diff, keys, codec>>

SpecVisit == InitVisit /\ [][NextVisit]_vars

\* The same backup with a store whose head may fail as well.
InitHead ==
    /\ IdlePipe /\ DocIdle /\ DiffOff /\ KeysOff /\ CodecOff /\ VisitorOff
    /\ \E s \in TwoStores : store_root = s.root /\ store_objs = s.objs
    /\ hashes_stored = {} /\ metadata = None
    /\ budget = 1 /\ faults = MaxFaults

NextHead ==
    \/ \E f \in {g \in Files : WholeChunks(g)} :
          BackupStart(f, TRUE) /\ UNCHANGED sideVars
    \/ ReaderStep /\ UNCHANGED sideVars
    \/ \E b \in hashing : HashSend(b) /\ UNCHANGED sideVars
    \/ UploadStart /\ UNCHANGED sideVars
    \/ UploadRecv /\ UNCHANGED sideVars
    \/ UploadSpawn /\ UNCHANGED sideVars
    \/ \E w \in DOMAIN join_set : WorkerHasBlock(w) /\ UNCHANGED sideVars
    \/ \E w \in DOMAIN join_set : WorkerHeadFails(w) /\ UNCHANGED sideVars
    \/ \E w \in DOMAIN join_set : WorkerPut(w) /\ UNCHANGED sideVars
    \/ \E w \in DOMAIN join_set : UploadJoinErr(w) /\ UNCHANGED sideVars
    \/ UploadPutRoot /\ UNCHANGED sideVars
    \/ BackupJoin /\ UNCHANGED sideVars

SpecHead == InitHead /\ [][NextHead]_vars

\* Every operation under fair scheduling: one ingest of either kind and any
\* number of restores, with failing reads, puts, heads and writes, over an
\* empty store, a store that holds a small backup, or one that has lost the
\* chunk objects of its backup. The tasks of tokio and rayon that can run do
\* run eventually.
LiveStores ==
    TwoStores \cup {[root |-> s.root, objs |-> {}] : s \in TwoStores}

InitLive ==
    /\ IdlePipe /\ DocIdle /\ DiffOff /\ KeysOff /\ CodecOff /\ VisitorOff
    /\ \E s \in LiveStores : store_root = s.root /\ store_objs = s.objs
    /\ hashes_stored = {} /\ metadata = None
    /\ budget = 1 /\ faults = MaxFaults

LiveBackupStart ==
    \E f \in {g \in Files : WholeChunks(g)}, ini \in BOOLEAN :
       BackupStart(f, ini) /\ UNCHANGED sideVars
LiveThinStart ==
    \E f \in {g \in Files : WholeChunks(g)} :
       \E d \in SUBSET (0..(FullChunks(f) - 1)) :
          BackupThinStart(f, d) /\ UNCHANGED <<pureVars, other>>
LiveRestoreStart == RestoreStart(<<>>) /\ UNCHANGED sideVars
LiveReader == ReaderStep /\ UNCHANGED sideVars
LiveThinStep == \E idx \in delta : ThinStep(idx) /\ UNCHANGED <<pureVars, other>>
LiveThinDone == ThinDone /\ UNCHANGED <<pureVars, other>>
LiveHashSend == \E b \in hashing : HashSend(b) /\ UNCHANGED sideVars
LiveUploadStart == UploadStart /\ UNCHANGED sideVars
LiveUploadRecv == UploadRecv /\ UNCHANGED sideVars
LiveUploadSpawn == UploadSpawn /\ UNCHANGED sideVars
LiveWorker ==
    \E w \in DOMAIN join_set :
       (WorkerHasBlock(w) \/ WorkerHeadFails(w) \/ WorkerPut(w)) /\ UNCHANGED sideVars
LiveUploadEnd ==
    \/ \E w \in DOMAIN join_set : UploadJoinErr(w) /\ UNCHANGED sideVars
    \/ UploadPutRoot /\ UNCHANGED sideVars
LiveBackupJoin == BackupJoin /\ UNCHANGED sideVars
LiveFetch == (FetchRoot \/ FetchChunk) /\ UNCHANGED sideVars
LiveWriter == (WriterRecv \/ WriterFails) /\ UNCHANGED sideVars
LiveRestoreJoin == RestoreJoin /\ UNCHANGED sideVars

NextLive ==
    \/ LiveBackupStart
    \/ LiveThinStart
    \/ LiveRestoreStart
    \/ LiveReader
    \/ LiveThinStep
    \/ LiveThinDone
    \/ LiveHashSend
    \/ LiveUploadStart
    \/ LiveUploadRecv
    \/ LiveUploadSpawn
    \/ LiveWorker
    \/ LiveUploadEnd
    \/ LiveBackupJoin
    \/ LiveFetch
    \/ LiveWriter
    \/ LiveRestoreJoin

\* Every task that is spawned is scheduled: spawn_blocking and rayon threads
\* run, and the tokio runtime polls every task that is ready.
Fairness ==
    /\ WF_vars(LiveReader) /\ WF_vars(LiveThinStep) /\ WF_vars(LiveThinDone)
    /\ WF_vars(LiveHashSend)
    /\ WF_vars(LiveUploadStart) /\ WF_vars(LiveUploadRecv)
    /\ WF_vars(LiveUploadSpawn) /\ WF_vars(LiveWorker) /\ WF_vars(LiveUploadEnd)
    /\ WF_vars(LiveBackupJoin)
    /\ WF_vars(LiveFetch) /\ WF_vars(LiveWriter) /\ WF_vars(LiveRestoreJoin)

SpecLive == InitLive /\ [][NextLive]_vars /\ Fairness

\* ------------------------------------------------------------ the claims
\* The last completed ingest, when no operation but a restore ran since.
LastIngest == Last(hist)
StoreWasEmpty(h) == h.start.root = None /\ h.start.objs = {}
CacheWasFresh(h) == h.start.hashes_stored = {} /\ h.start.metadata = None

\* C1: a backup of any file B into an empty store (and with no cache file),
\* followed by a restore, writes B zero-padded to the next multiple of CHUNK_SIZE (a final partial
\* block is kept, zero-padded).
C1_RoundTripPadded ==
    (RestoreOk /\ hist # <<>> /\ LastIngest.ok /\ StoreWasEmpty(LastIngest)
        /\ CacheWasFresh(LastIngest))
    => out = Padded(LastIngest.file)

\* C2: when a file of whole chunks is backed up and backed up again after it
\* shrank to fewer chunks, the published manifest has as many hashes as the
\* shrunken file has chunks, and a restore yields the shrunken file.
C2_ShrinkDropsTrailingChunks ==
    \A i \in 1..(Len(hist) - 1) :
        (/\ hist[i].ok /\ hist[i + 1].ok
         /\ WholeChunks(hist[i].file) /\ WholeChunks(hist[i + 1].file)
         /\ FullChunks(hist[i + 1].file) < FullChunks(hist[i].file))
        => /\ Len(The(hist[i + 1].root)) = FullChunks(hist[i + 1].file)
           /\ (RestoreOk /\ i + 1 = Len(hist)) => out = hist[i + 1].file

\* C3: backup(B1), backup(B2), restore, with B2 of at least as many chunks
\* as B1, yields B2 padded to a chunk boundary: every index of the published
\* manifest holds the hash of B2's chunk at that index.
C3_GrowYieldsSecondFile ==
    \A i \in 1..(Len(hist) - 1) :
        (/\ hist[i].ok /\ hist[i + 1].ok
         /\ PaddedChunks(hist[i + 1].file) >= PaddedChunks(hist[i].file))
        => /\ hist[i + 1].root = Some(PaddedHashes(hist[i + 1].file))
           /\ (RestoreOk /\ i + 1 = Len(hist)) => out = Padded(hist[i + 1].file)

\* C4: an ingest in which a read of the source failed reports failure and
\* leaves the store's root as it was when the ingest started.
C4_ReadFailureKeepsRoot ==
    \A i \in DOMAIN hist :
        hist[i].read_failed => ~hist[i].ok /\ hist[i].root = hist[i].start.root

\* C5: an ingest in which a put_block failed returns an error and never
\* writes the root: the root stays what it was when the ingest started.
C5_PutFailureKeepsRoot ==
    /\ (mode = "backup" /\ put_failed) => store_root = start.root /\ up_pc # "ok"
    /\ \A i \in DOMAIN hist :
          hist[i].put_failed => ~hist[i].ok /\ hist[i].root = hist[i].start.root

\* C5 happens: a put failed in an ingest over an existing root, after another
\* chunk of the same ingest had been stored.
C5_Witness ==
    /\ mode = "idle" /\ hist # <<>> /\ LastIngest.put_failed
    /\ LastIngest.start.root # None
    /\ store_objs # LastIngest.start.objs

\* C6: the root is written only when the hash channel is closed and empty
\* and every upload worker the ingest spawned has returned Ok.
C6_RootWrittenLast ==
    [][store_root' # store_root =>
          /\ Done(rd_pc) /\ hashing = {} /\ hash_ch = <<>> /\ cur = None
          /\ \A w \in DOMAIN join_set : join_set[w].pc = "ok"]_vars

\* C6 happens: an ingest that spawned two workers has written the root.
C6_Witness ==
    /\ mode = "backup" /\ up_pc = "ok" /\ Len(join_set) >= 2
    /\ store_root # start.root

\* C7: whatever the cache held when the ingest started, after a successful
\* backup every hash of the published root has an object in the store.
\* Stated for an initial backup, whose manifest starts empty: only the
\* cached set of stored hashes can then come between the root and the store.
C7_PublishedChunksStored ==
    (mode = "idle" /\ hist # <<>> /\ LastIngest.ok /\ LastIngest.initial)
    => \A h \in Range(The(store_root)) : StoreHas(store_objs, h)

\* C8: no put is issued for a chunk whose object the store holds at the
\* moment of the put; identical blocks of one ingest cause at most one put.
C8_NoPutOfHeldChunk == \A p \in puts : ~p.held

\* C9: get_root_metadata returns the manifest stored at the root key: a
\* restore of a store that has a root starts from that root, whatever the
\* cache holds.
C9_RestoreReadsStoreRoot ==
    (mode = "restore" /\ fetch_pc \in {"chunks", "ok"} /\ store_root # None)
    => store_root = Some(fetch_blob)

\* C10: after Document::new(b0) and any updates b1..bn, growing or shrinking,
\* every earlier blob b_k is rebuilt exactly, hashes and timestamp, from
\* current through the PrevBlobs from the newest back to the one recorded
\* when b_k was replaced.
C10_EveryVersionRecovered ==
    doc_pc = "live" =>
        \A k \in 1..Len(doc_history) : Version(k) = Some(doc_blobs[k])

\* C10 happens: three versions, the second shorter than the first and the
\* third longer than the second, with different timestamps.
C10_Witness ==
    /\ doc_pc = "live" /\ Len(doc_history) = 2
    /\ Len(doc_blobs[2].chunk_hashes) < Len(doc_blobs[1].chunk_hashes)
    /\ Len(doc_blobs[3].chunk_hashes) > Len(doc_blobs[2].chunk_hashes)
    /\ doc_blobs[1].timestamp # doc_blobs[2].timestamp

\* C11: for every pair of blobs (new, prev) with len(prev) <= len(new), the
\* call from_diff(new, prev) passes its assertions, and compute on new gives
\* prev back, hashes and timestamp.
C11_DiffRebuildsPrev ==
    (/\ diff.pc \in {"ok", "panic"}
     /\ Len(diff.prev.chunk_hashes) <= Len(diff.new.chunk_hashes))
    => diff.pc = "ok" /\ diff.out = Some(diff.prev)

\* C11 happens: new is longer than prev, differs from it at an index that is
\* followed by an equal one, and carries another timestamp.
C11_Witness ==
    /\ diff.pc = "ok"
    /\ Len(diff.prev.chunk_hashes) = 2 /\ Len(diff.new.chunk_hashes) = 3
    /\ diff.prev.chunk_hashes[1] # diff.new.chunk_hashes[1]
    /\ diff.prev.chunk_hashes[2] = diff.new.chunk_hashes[2]
    /\ diff.prev.timestamp # diff.new.timestamp

\* C12: for every pair (new, prev) with len(prev) > len(new), from_diff
\* does not panic, the hashes of prev from index len(new) on are the last diff
\* hashes it records, and compute on new gives prev back with its tail.
C12_ShrinkKeepsTail ==
    LET p == diff.prev.chunk_hashes
        n == diff.new.chunk_hashes
        d == diff.pb.diff_chunks
    IN  (diff.pc \in {"ok", "panic"} /\ Len(p) > Len(n))
        => /\ diff.pc = "ok"
           /\ Len(d) >= Len(p) - Len(n)
           /\ SubSeq(d, Len(d) - (Len(p) - Len(n)) + 1, Len(d))
                = SubSeq(p, Len(n) + 1, Len(p))
           /\ diff.out = Some(diff.prev)

\* C12 happens: prev has two hashes more than new, which is not empty and
\* agrees with prev on its first hash.
C12_Witness ==
    /\ diff.pc = "ok"
    /\ Len(diff.prev.chunk_hashes) = 3 /\ Len(diff.new.chunk_hashes) = 1
    /\ diff.prev.chunk_hashes[1] = diff.new.chunk_hashes[1]

\* The bytes of the chunk objects of a manifest, in index order.
RECURSIVE ManifestBytes(_)
ManifestBytes(b) ==
    IF b = <<>> THEN <<>>
    ELSE StoreGet(store_objs, Head(b)) \o ManifestBytes(Tail(b))

\* C13: after a successful restore the output file is the chunk bytes of
\* the restored manifest in index order and nothing else, whatever the
\* output path held before.
C13_OutputIsManifestBytes ==
    RestoreOk => OutputFile = ManifestBytes(fetch_blob)

\* The chunk object at index i of the restored manifest does not hash to
\* the manifest's entry.
ChunkMismatch(i) ==
    /\ StoreHas(store_objs, fetch_blob[i])
    /\ Hash(StoreGet(store_objs, fetch_blob[i])) # fetch_blob[i]

\* C14: when the bytes the store returns for a chunk of the restored manifest
\* do not hash to the recorded hash, the restore ends with the hash-mismatch
\* error and never with success, and no such bytes reach the writer: all
\* that was sent hashes to its entry.
C14_MismatchFailsRestore ==
    /\ RestoreOk => \A i \in DOMAIN fetch_blob : ~ChunkMismatch(i)
    /\ (fetch_pc \in {"chunks", "ok", "err", "mismatch"})
       => /\ \A k \in 1..(fetch_i - 1) : ~ChunkMismatch(k)
          /\ (FetchDone /\ fetch_i <= Len(fetch_blob) /\ ChunkMismatch(fetch_i))
             => fetch_pc = "mismatch"

\* C14 happens: a restore has returned after it sent the first chunk and
\* found the second one not to hash to its entry.
C14_Witness ==
    /\ mode = "idle" /\ fetch_pc = "mismatch" /\ fetch_i = 2
    /\ Len(out) = CHUNK_SIZE

\* C15 as stated: at every point of an ingest at most HASH_CHANNEL_SIZE +
\* UPLOAD_PERMITS chunk buffers are alive.
C15_BuffersWithinPermits ==
    BuffersAlive <= HASH_CHANNEL_SIZE + UPLOAD_PERMITS

\* C15 amended: at every point of an ingest at most HASH_CHANNEL_SIZE +
\* UPLOAD_PERMITS + 1 chunk buffers are alive, whatever the size of the file:
\* the one more is the block upload has received and holds while it waits
\* for a permit of the semaphore.
C15_BuffersBounded ==
    BuffersAlive <= HASH_CHANNEL_SIZE + UPLOAD_PERMITS + 1

\* C15 happens: the channel's permits are all in use, every upload permit is
\* held, upload holds one more block, and the file has blocks left to read.
C15_Witness ==
    /\ mode = "backup" /\ rd_pc = "loop"
    /\ read_exact(file, rd_idx) # None
    /\ BuffersAlive = HASH_CHANNEL_SIZE + UPLOAD_PERMITS + 1

\* C16: no published manifest holds a placeholder: in the manifest a
\* successful ingest published, every slot beyond the length of the manifest
\* it started from holds the hash of the file's chunk at that index.
C16_NoPlaceholderPublished ==
    \A i \in DOMAIN hist :
        LET h == hist[i]
            old == IF h.initial \/ h.start.root = None THEN 0
                   ELSE Len(The(h.start.root))
        IN  (h.ok /\ CacheWasFresh(h))
            => \A k \in (old + 1)..Len(The(h.root)) :
                  /\ k <= FullChunks(h.file)
                  /\ The(h.root)[k] = Hash(ChunkAt(h.file, k - 1))

\* C17: when two ingests ran concurrently against one store and both have
\* finished with success, the root is the manifest one of the two wrote,
\* whole, and every hash in it has an object in the store.
C17_LastWriterWins ==
    (mode = "backup" /\ up_pc = "ok" /\ other.pc = "ok")
    => /\ store_root \in {Some(blob), Some(other.blob)}
       /\ \A h \in Range(The(store_root)) : StoreHas(store_objs, h)

\* C17 happens: both ingests have written the root, this one last, with a
\* manifest of two hashes that differs from the other's, and the other
\* ingest started before this one's root was written.
C17_Witness ==
    /\ mode = "backup" /\ up_pc = "ok" /\ other.pc = "ok"
    /\ store_root = Some(blob) /\ blob # other.blob
    /\ Len(blob) = 2 /\ Len(other.blob) = 2
    /\ ~initial /\ start.root = None

\* C18: each Document::update appends exactly one PrevBlob to history,
\* leaves the earlier entries as they were and makes the new blob current;
\* when the new blob's hash sequence equals current's, the entry added has
\* an empty diff list and current keeps the hash sequence.
C18_UpdateAppendsOne ==
    [][(doc_pc = "live" /\ doc_pc' = "live" /\ doc_blobs' # doc_blobs)
       => /\ Len(doc_history') = Len(doc_history) + 1
          /\ SubSeq(doc_history', 1, Len(doc_history)) = doc_history
          /\ doc_current' = Last(doc_blobs')
          /\ (Last(doc_blobs').chunk_hashes = doc_current.chunk_hashes)
             => /\ Last(doc_history').diff_chunks = <<>>
                /\ doc_current'.chunk_hashes = doc_current.chunk_hashes]_vars

\* C18 happens: the second update gave the hash sequence the Document
\* already had, and history has two entries, the first with a diff.
C18_Witness ==
    /\ doc_pc = "live" /\ Len(doc_history) = 2
    /\ doc_blobs[3].chunk_hashes = doc_blobs[2].chunk_hashes
    /\ doc_blobs[3].chunk_hashes # <<>>
    /\ doc_history[1].diff_chunks # <<>>
    /\ doc_history[2].diff_chunks = <<>>

C20_CodecRoundTrip ==
    /\ codec.pc \in {"decoded", "reencoded", "put", "got"}
       => codec.back = Some(codec.doc)
    /\ codec.pc \in {"reencoded", "put", "got"} => codec.again = codec.bytes
    /\ codec.pc = "got" => codec.got = Some(codec.doc.current.chunk_hashes)

\* C20 happens: a Document with two history entries, a negative timestamp,
\* a run length that takes three bytes and hashes in every list went through
\* encode, decode and encode, and its root was decoded from the store.
C20_Witness ==
    /\ codec.pc = "got" /\ codec.metadata = None
    /\ Len(codec.doc.history) = 2
    /\ codec.doc.current.timestamp = -1
    /\ codec.doc.current.chunk_hashes # <<>>
    /\ codec.doc.history[1].same_chunks_lengths = <<300>>
    /\ codec.doc.history[1].diff_chunks # <<>>
    /\ codec.back = Some(codec.doc)
    /\ Len(codec.bytes) > 2 * HASH_LEN

\* C21: at most UPLOAD_PERMITS put_block calls of an ingest are in flight at
\* any time, and an uploader that waits for a permit is never stuck: when
\* every permit is held, a worker holding one can take its next step.
InFlight == {i \in DOMAIN join_set : join_set[i].pc \in {"has_block", "put"}}
C21_UploadsWithinPermits ==
    /\ Cardinality(InFlight) <= UPLOAD_PERMITS
    /\ (up_pc = "acquire" /\ ~ENABLED UploadSpawn)
       => \E w \in InFlight : ENABLED (WorkerHasBlock(w) \/ WorkerPut(w))

\* C21 happens: every permit is held, the uploader waits with one more
\* block for a permit, and a put of this ingest has already failed.
C21_Witness ==
    /\ mode = "backup" /\ up_pc = "acquire"
    /\ Cardinality(InFlight) = UPLOAD_PERMITS
    /\ put_failed
    /\ Len(join_set) > UPLOAD_PERMITS

\* The manifest upload started from (lib.rs:62-68).
PriorBlob ==
    IF initial THEN <<>>
    ELSE The(IF start.metadata # None THEN start.metadata ELSE start.root)

ReceiveFrame ==
    (up_pc = "recv" /\ up_pc' = "acquire")
    => LET b == Head(hash_ch)
       IN  /\ \A j \in 1..Len(blob) : j # b.idx + 1 => blob'[j] = blob[j]
           /\ blob'[b.idx + 1] = b.hash
           /\ Len(blob') = IF Len(blob) <= b.idx THEN b.idx + 1 ELSE Len(blob)

RegionChunks(m, bs) ==
    {c \in 0..(((MaxBlock + MaxRegionLen) * bs) \div CHUNK_SIZE) :
        /\ c * CHUNK_SIZE < (m.thin_begin + m.len) * bs
        /\ (c + 1) * CHUNK_SIZE > m.thin_begin * bs}

\* C24: for every region reported as changed, every chunk whose byte range
\* overlaps the region has been given to a read (a chunk suppressed as a
\* recent duplicate was read when it entered the window).
C24_RegionChunksEmitted ==
    \A m \in visitor.seen :
        RegionChunks(m, The(visitor.data_block_size_bytes))
            \subseteq Range(visitor.reads)

\* C25: every PrevBlob from_diff builds has as many run lengths as diff
\* hashes, or one more: never fewer, never two more.
C25_RunsMatchDiffs ==
    diff.pc \in {"built", "ok", "panic"}
    => Len(diff.pb.same_chunks_lengths) - Len(diff.pb.diff_chunks) \in {0, 1}

\* C25 happens: from_diff returned for two blobs of different lengths a
\* PrevBlob with one diff after an empty run, and a trailing run.
C25_Witness ==
    /\ diff.pc = "ok"
    /\ Len(diff.new.chunk_hashes) # Len(diff.prev.chunk_hashes)
    /\ Len(diff.pb.diff_chunks) = 1
    /\ Len(diff.pb.same_chunks_lengths) = 2
    /\ diff.pb.same_chunks_lengths[1] = 0

\* One processed block: a chunk index the window holds changes nothing and
\* is not read; any other is read, enters at the back and, when the window
\* is full, drives out the entry at the front.
WindowStep ==
    (visitor'.n = visitor.n + 1 /\ visitor'.last # None)
    => LET c == The(visitor'.last)
           q == visitor.processed_queue
       IN  IF c \in Range(q)
           THEN /\ visitor'.processed_queue = q
                /\ visitor'.reads = visitor.reads
           ELSE /\ visitor'.processed_queue =
                     (IF Len(q) = QUEUE_LIMIT THEN Tail(q) ELSE q) \o <<c>>
                /\ visitor'.reads = Append(visitor.reads, c)

\* C26: the window of recently processed chunk indices never holds more than
\* QUEUE_LIMIT entries nor any index twice, it evicts oldest first, and a
\* changed block whose chunk index is in the window is not read again.
C26_WindowBounded ==
    /\ [](LET q == visitor.processed_queue
          IN  /\ Len(q) <= QUEUE_LIMIT
              /\ \A i, j \in DOMAIN q : q[i] = q[j] => i = j)
    /\ [][WindowStep]_vars

\* C26 happens: three chunks were read, the first of them has been driven
\* out of the full window, and a fourth changed block, whose chunk index was
\* in the window, was left out.
C26_Witness ==
    /\ visitor.n = 4 /\ Len(visitor.reads) = 3
    /\ Len(visitor.processed_queue) = QUEUE_LIMIT
    /\ visitor.reads[1] \notin Range(visitor.processed_queue)
    /\ visitor.last = Some(visitor.reads[2])

\* C27: when the existence check of a chunk fails with a store error, the
\* put_block that asked fails with it; the chunk is not taken to be absent
\* and put.
C27_HeadErrorFails ==
    [][\A w \in DOMAIN join_set :
          (/\ join_set[w].pc = "has_block"
           /\ w \in DOMAIN join_set' /\ join_set'[w].pc # "has_block"
           /\ faults' = faults - 1)
          => join_set'[w].pc = "err"]_vars

\* C28: the root write is the last step of upload that can fail: an upload
\* that returned Ok has published its manifest, and an upload that returned
\* an error has left the root as the ingest found it.
C28_RootWriteIsCommit ==
    /\ (mode = "backup" /\ up_pc = "ok") => store_root = Some(blob)
    /\ (mode = "backup" /\ up_pc = "err") => store_root = start.root

\* C29: under fair scheduling every ingest and every restore that was
\* started comes to its end, with success or with an error.
C29_Terminates == (mode # "idle") ~> (mode = "idle")

\* C29 happens: the uploader of an incremental ingest stopped at once, its
\* root fetch having failed, and the reader, which had blocks left to read,
\* has seen the closed channel and stopped too.
C29_Witness ==
    /\ mode = "backup" /\ ~initial /\ start.root = None
    /\ up_pc = "err" /\ rd_pc = "panic"
    /\ read_exact(file, rd_idx) # None

====
